---- MODULE Spec2Model ----
(***************************************************************************)
(* Model of the PDF layout code of app.py: _split_text (greedy word wrap), *)
(* _draw_paragraph (line emission with page breaks) and _create_pdf (the   *)
(* fixed block order, the figure loop and the image scaling).              *)
(*                                                                         *)
(* Strings are sequences of one-character strings.  Lengths are PDF points.*)
(* The page cursor takes integer values only: every figure used in the     *)
(* layout specification has a drawn height that the double computation of  *)
(* the code yields as an exact integer (see LayoutSizes).  The image       *)
(* scaling itself is modelled in IEEE-754 binary64, as Python computes it. *)
(***************************************************************************)
EXTENDS Integers, Sequences, FiniteSets, Bags, TLC

VARIABLES title, abstract, body_sections, figures,  \* arguments of _create_pdf
          pc,          \* position in _create_pdf
          current_y,   \* local current_y of _create_pdf
          instrs,      \* canvas operations issued so far, in order
          idx,         \* index of the next element of the running for loop
          call,        \* arguments of a call of a pure function
          ret          \* its result

vars == <<title, abstract, body_sections, figures, pc, current_y, instrs, idx, call, ret>>

----------------------------------------------------------------------------
(* Page geometry: reportlab letter = (612, 792), inch = 72.                *)
inch == 72
letter_width == 612
letter_height == 792
margin == inch
max_content_width == letter_width - 2 * margin
\* 3.25 * inch
max_image_height == (325 * inch) \div 100

----------------------------------------------------------------------------
(* IEEE-754 binary64 for positive normal numbers: value = M * 2^e, with M  *)
(* the 53-bit integer whose binary digits are m (most significant first).  *)
MantBits == 53
\* number of binary digits of n (0 <= n < 2^30)
BitLen(n) == CHOOSE k \in 0..30 : n < 2^k /\ (k = 0 \/ 2^(k - 1) <= n)

\* the w low binary digits of v, most significant first
FixedBits(v, w) == [j \in 1..w |-> (v \div 2^(w - j)) % 2]

Bits(n) == FixedBits(n, BitLen(n))

RECURSIVE BitsValue(_)
BitsValue(bits) ==
    IF bits = <<>> THEN 0
    ELSE 2 * BitsValue(SubSeq(bits, 1, Len(bits) - 1)) + bits[Len(bits)]

Zeros(k) == [j \in 1..k |-> 0]

AnyOne(bits) == \E j \in 1..Len(bits) : bits[j] = 1

StripZeros(bits) ==
    IF ~AnyOne(bits) THEN <<>>
    ELSE LET first == CHOOSE j \in 1..Len(bits) :
                          bits[j] = 1 /\ \A k \in 1..(j - 1) : bits[k] = 0
         IN  SubSeq(bits, first, Len(bits))

\* bits + 1; the result is one digit longer when every digit was 1
IncBits(bits) ==
    IF \A j \in 1..Len(bits) : bits[j] = 1 THEN <<1>> \o Zeros(Len(bits))
    ELSE LET last == CHOOSE j \in 1..Len(bits) :
                         bits[j] = 0 /\ \A k \in (j + 1)..Len(bits) : bits[k] = 1
         IN  [j \in 1..Len(bits) |->
                 IF j < last THEN bits[j] ELSE IF j = last THEN 1 ELSE 0]

\* round-to-nearest-even of bits * 2^e (plus less than one unit when sticky)
RoundBits(bits, e, sticky) ==
    LET L == Len(bits) IN
    IF L <= MantBits
    THEN [m |-> bits \o Zeros(MantBits - L), e |-> e - (MantBits - L)]
    ELSE LET keep  == SubSeq(bits, 1, MantBits)
             guard == bits[MantBits + 1]
             rest  == sticky \/ AnyOne(SubSeq(bits, MantBits + 2, L))
             up    == guard = 1 /\ (rest \/ keep[MantBits] = 1)
             inc   == IncBits(keep)
         IN  IF ~up THEN [m |-> keep, e |-> e + (L - MantBits)]
             ELSE IF Len(inc) = MantBits THEN [m |-> inc, e |-> e + (L - MantBits)]
             ELSE [m |-> SubSeq(inc, 1, MantBits), e |-> e + (L - MantBits) + 1]

FromInt(n) == RoundBits(Bits(n), 0, FALSE)

\* 2^j mod b
RECURSIVE Pow2Mod(_, _)
Pow2Mod(j, b) ==
    IF j = 0 THEN 1 % b
    ELSE LET h == Pow2Mod(j \div 2, b)
         IN  (((h * h) % b) * (IF j % 2 = 1 THEN 2 ELSE 1)) % b

\* the first n binary digits of r / b after the point (0 <= r < b), and the
\* remainder left: long division, digit j from the remainder r * 2^(j-1) mod b
DivBits(r, b, n) ==
    [q |-> [j \in 1..n |-> (2 * ((r * Pow2Mod(j - 1, b)) % b)) \div b],
     r |-> (r * Pow2Mod(n, b)) % b]

\* float(a) / float(b) for positive integers a, b
FDivInt(a, b) ==
    LET n    == MantBits + 2 + BitLen(b)
        frac == DivBits(a % b, b, n)
        all  == StripZeros(Bits(a \div b) \o frac.q)
    IN  RoundBits(all, 0 - n, frac.r # 0)

\* the digits of M * n + carry, M given by its digits, taken 13 digits at a time
\* from the right so that every product stays an ordinary integer
RECURSIVE MulBits(_, _, _)
MulBits(bits, n, carry) ==
    LET L == Len(bits)
        w == 13
    IN  IF L <= w THEN Bits(n * BitsValue(bits) + carry)
        ELSE LET t == n * BitsValue(SubSeq(bits, L - w + 1, L)) + carry
             IN  MulBits(SubSeq(bits, 1, L - w), n, t \div 2^w)
                     \o FixedBits(t % 2^w, w)

\* float(n) * x for a positive integer n
FMulInt(n, x) == RoundBits(MulBits(x.m, n, 0), x.e, FALSE)

LexLess(a, b) ==
    \E j \in 1..Len(a) : a[j] < b[j] /\ \A k \in 1..(j - 1) : a[k] = b[k]

FLess(x, y) == x.e < y.e \/ (x.e = y.e /\ LexLess(x.m, y.m))
FLeq(x, y) == ~FLess(y, x)

\* Python's min(a, b, c): the first of the smallest
FMin3(a, b, c) ==
    LET ab == IF FLess(b, a) THEN b ELSE a
    IN  IF FLess(c, ab) THEN c ELSE ab

\* x is an integer below 2^30
FIsInt(x) == /\ x.e <= 0
             /\ MantBits + x.e >= 1
             /\ MantBits + x.e <= 30
             /\ ~AnyOne(SubSeq(x.m, MantBits + x.e + 1, MantBits))

FToInt(x) == BitsValue(SubSeq(x.m, 1, MantBits + x.e))

----------------------------------------------------------------------------
(* Strings and font metrics.  pdfmetrics.stringWidth of a standard font is *)
(* the sum of the glyph widths (thousandths of the font size) times the    *)
(* size; widths here are in thousandths of a point.  Glyph widths are those*)
(* of the Adobe Helvetica and Helvetica-Bold metrics (Helvetica-Oblique    *)
(* has the widths of Helvetica).                                           *)
TAB == "\t"
IsSpace(c) == c \in {" ", TAB}

HelveticaWidth ==
    (" " :> 278) @@ ("." :> 278) @@ ("1" :> 556) @@ ("2" :> 556) @@ ("@" :> 1015) @@
    ("A" :> 667) @@ ("F" :> 611) @@ ("M" :> 833) @@ ("T" :> 611) @@ ("U" :> 722) @@
    ("W" :> 944) @@ ("a" :> 556) @@ ("b" :> 556) @@ ("c" :> 500) @@ ("d" :> 556) @@
    ("e" :> 556) @@ ("g" :> 556) @@ ("i" :> 222) @@ ("l" :> 222) @@ ("n" :> 556) @@
    ("p" :> 556) @@ ("r" :> 333) @@ ("s" :> 500) @@ ("t" :> 278) @@ ("u" :> 556)

HelveticaBoldWidth ==
    (" " :> 278) @@ ("." :> 278) @@ ("1" :> 556) @@ ("2" :> 556) @@ ("@" :> 975) @@
    ("A" :> 722) @@ ("F" :> 611) @@ ("M" :> 833) @@ ("T" :> 611) @@ ("U" :> 722) @@
    ("W" :> 944) @@ ("a" :> 556) @@ ("b" :> 611) @@ ("c" :> 556) @@ ("d" :> 611) @@
    ("e" :> 556) @@ ("g" :> 611) @@ ("i" :> 278) @@ ("l" :> 278) @@ ("n" :> 611) @@
    ("p" :> 611) @@ ("r" :> 389) @@ ("s" :> 556) @@ ("t" :> 333) @@ ("u" :> 611)

charWidth(c, font_name) ==
    IF font_name = "Helvetica-Bold" THEN HelveticaBoldWidth[c] ELSE HelveticaWidth[c]

\* the sum of the glyph widths of s (a bag holding width-many copies of each position)
SumWidths(s, font_name) ==
    BagCardinality([i \in 1..Len(s) |-> charWidth(s[i], font_name)])

\* in thousandths of a point
stringWidth(s, font_name, font_size) == SumWidths(s, font_name) * font_size

\* str.split(): the maximal runs of non-whitespace characters, in order
Words(text) ==
    LET n == Len(text)
        IsStart(i) == ~IsSpace(text[i]) /\ (i = 1 \/ IsSpace(text[i - 1]))
        IsEnd(i)   == ~IsSpace(text[i]) /\ (i = n \/ IsSpace(text[i + 1]))
        pos    == [i \in 1..n |-> i]
        starts == SelectSeq(pos, IsStart)
        ends   == SelectSeq(pos, IsEnd)
    IN  [k \in 1..Len(starts) |-> SubSeq(text, starts[k], ends[k])]

\* mutant: the line so far is measured, not the line with the next word added
SplitStep_MeasuresCurrent(st, word, max_width, font_name, font_size) ==
    LET test_line == st.current \o <<" ">> \o word
    IN  IF stringWidth(st.current, font_name, font_size) <= 1000 * max_width
        THEN [current |-> test_line, lines |-> st.lines]
        ELSE [current |-> word, lines |-> Append(st.lines, st.current)]

\* the body of the for loop of _split_text; st holds the locals current and lines
SplitStep(st, word, max_width, font_name, font_size) ==
    LET test_line == st.current \o <<" ">> \o word
    IN  IF stringWidth(test_line, font_name, font_size) <= 1000 * max_width
        THEN [current |-> test_line, lines |-> st.lines]
        ELSE [current |-> word, lines |-> Append(st.lines, st.current)]

\* the for loop over words[lo..hi], run in order (evaluated by halves)
RECURSIVE SplitLoop(_, _, _, _, _, _, _)
SplitLoop(words, lo, hi, st, max_width, font_name, font_size) ==
    IF lo > hi THEN st
    ELSE IF lo = hi THEN SplitStep(st, words[lo], max_width, font_name, font_size)
    ELSE LET mid   == (lo + hi) \div 2
             first == SplitLoop(words, lo, mid, st, max_width, font_name, font_size)
         IN  \* the test makes the first half run before the second starts
             IF first.current # <<>>
             THEN SplitLoop(words, mid + 1, hi, first, max_width, font_name, font_size)
             ELSE first

\* mutant: the line being built when the words run out is not appended
_split_text_DropsLast(text, max_width, font_name, font_size) ==
    LET words == Words(text)
    IN  IF words = <<>> THEN << <<>> >>
        ELSE SplitLoop(words, 2, Len(words),
                       [current |-> words[1], lines |-> <<>>],
                       max_width, font_name, font_size).lines

_split_text(text, max_width, font_name, font_size) ==
    LET words == Words(text)
    IN  IF words = <<>> THEN << <<>> >>
        ELSE LET end == SplitLoop(words, 2, Len(words),
                                  [current |-> words[1], lines |-> <<>>],
                                  max_width, font_name, font_size)
             IN  Append(end.lines, end.current)

----------------------------------------------------------------------------
(* Canvas operations, recorded in the order they are issued.               *)
showPageOp == [op |-> "showPage"]
\* x, y, text are the arguments of drawString and font, size the font set on the
\* canvas; line_no and leading are bookkeeping: which line of its paragraph the
\* string is, and the leading that paragraph was drawn with
drawStringOp(x, y, line, font_name, font_size, line_no, leading) ==
    [op |-> "drawString", x |-> x, y |-> y, text |-> line,
     font |-> font_name, size |-> font_size,
     line_no |-> line_no, leading |-> leading]
\* y is the bottom edge of the image; width and height are doubles
drawImageOp(x, y, width, height) ==
    [op |-> "drawImage", x |-> x, y |-> y, width |-> width, height |-> height]

\* mutant: the test compares with the page bottom, not the margin
LineNeedsBreak_PageBottom(y) == y < 0

\* mutant: the test uses the threshold of the figure loop
LineNeedsBreak_TwoInch(y) == y < 2 * inch

\* the page-break test of _draw_paragraph
LineNeedsBreak(y) == y < inch

\* mutant: the page is broken after a line that leaves no room, not before the
\* next line is drawn
DrawStep_BreakAfter(st, line, line_no, x, font_name, font_size, leading) ==
    LET out == Append(st.out, drawStringOp(x, st.y, line, font_name, font_size,
                                           line_no, leading))
        y   == st.y - leading
    IN  IF y < inch
        THEN [y |-> letter_height - inch, out |-> Append(out, showPageOp)]
        ELSE [y |-> y, out |-> out]

\* the body of the for loop of _draw_paragraph; st holds y and the canvas
DrawStep(st, line, line_no, x, font_name, font_size, leading) ==
    LET brk == LineNeedsBreak(st.y)
        y   == IF brk THEN letter_height - inch ELSE st.y
        out == IF brk THEN Append(st.out, showPageOp) ELSE st.out
    IN  [y   |-> y - leading,
         out |-> Append(out, drawStringOp(x, y, line, font_name, font_size,
                                          line_no, leading))]

\* the for loop over lines[lo..hi], run in order (evaluated by halves)
RECURSIVE DrawLoop(_, _, _, _, _, _, _, _)
DrawLoop(lines, lo, hi, st, x, font_name, font_size, leading) ==
    IF lo > hi THEN st
    ELSE IF lo = hi
         THEN DrawStep(st, lines[lo], lo, x, font_name, font_size, leading)
    ELSE LET mid   == (lo + hi) \div 2
             first == DrawLoop(lines, lo, mid, st, x, font_name, font_size, leading)
         IN  \* the test makes the first half run before the second starts
             IF first.out # <<>>
             THEN DrawLoop(lines, mid + 1, hi, first, x, font_name, font_size, leading)
             ELSE first

\* returns the new y and the canvas pdf with the operations of the paragraph added
_draw_paragraph(pdf, text, x, y, max_width, font_name, font_size, leading) ==
    LET lines == _split_text(text, max_width, font_name, font_size)
    IN  DrawLoop(lines, 1, Len(lines), [y |-> y, out |-> pdf],
                 x, font_name, font_size, leading)

\* scale, draw_width and draw_height of _create_pdf's figure loop, as doubles
ImageScale(image_width, image_height) ==
    LET scale == FMin3(FDivInt(max_content_width, image_width),
                       FDivInt(max_image_height, image_height),
                       FromInt(1))
    IN  [scale       |-> scale,
         draw_width  |-> FMulInt(image_width, scale),
         draw_height |-> FMulInt(image_height, scale)]

\* title or "Untitled Manuscript"
UntitledManuscript == <<"U", "n", "t", "i", "t", "l", "e", "d", " ",
                        "M", "a", "n", "u", "s", "c", "r", "i", "p", "t">>
\* mutant: no default title
TitleText_NoDefault(t) == t

TitleText(t) == IF t = <<>> THEN UntitledManuscript ELSE t

AbstractHeading == <<"A", "b", "s", "t", "r", "a", "c", "t">>
FiguresHeading == <<"F", "i", "g", "u", "r", "e", "s">>

\* the page-break test of the figure loop
FigureNeedsBreak(y) == y < 2 * inch

----------------------------------------------------------------------------
(* Inputs of the layout specification.                                     *)
MaxBody == 2
MaxFigs == 2

\* n words of 21 "@" (each wider than half a line at 11 and 18 points),
\* separated by single spaces
Para(n) == [i \in 1..(22 * n - 1) |-> IF i % 22 = 0 THEN " " ELSE "@"]

Titles == {<<>>, <<"T">>, Para(2)}
Abstracts == {<<>>, Para(2)}
BodyTexts == {<<"a">>, Para(25)}

Caption11 == <<"F", "i", "g", "u", "r", "e", " ", "1", ".", "1">>
Caption12 == <<"F", "i", "g", "u", "r", "e", " ", "1", ".", "2">>

\* A FigureAsset: its caption, whether data_uri starts with "data:image/", and
\* the size ImageReader.getSize() reports for the bytes it carries.
CandidateFigures ==
    { [caption |-> Caption11, is_image |-> TRUE, image_width |-> 4000, image_height |-> 3000],
      [caption |-> Para(3), is_image |-> TRUE, image_width |-> 300, image_height |-> 100],
      [caption |-> Caption12, is_image |-> FALSE, image_width |-> 1, image_height |-> 1] }

\* the figures whose drawn height is an integer number of points
FigureChoices ==
    {f \in CandidateFigures :
        FIsInt(ImageScale(f.image_width, f.image_height).draw_height)}

SeqsUpTo(S, n) == UNION {[1..k -> S] : k \in 0..n}

\* up to MaxBody paragraphs, and the body of one paragraph of 60 lines
Bodies == SeqsUpTo(BodyTexts, MaxBody) \cup {<<Para(60)>>}

NoCall == [fn |-> "none"]
NoRet == [done |-> FALSE]

----------------------------------------------------------------------------
(* _create_pdf, one action per drawn block.                                *)
Init ==
    /\ title \in Titles
    /\ abstract \in Abstracts
    /\ body_sections \in Bodies
    /\ figures \in SeqsUpTo(FigureChoices, MaxFigs)
    /\ pc = "title"
    /\ current_y = letter_height - margin
    /\ instrs = <<>>
    /\ idx = 1
    /\ call = NoCall
    /\ ret = NoRet

Inputs == <<title, abstract, body_sections, figures, call, ret>>

DrawTitle ==
    /\ pc = "title"
    /\ LET r == _draw_paragraph(instrs, TitleText(title), margin, current_y,
                                letter_width - 2 * margin, "Helvetica-Bold", 18, 22)
       IN  /\ instrs' = r.out
           /\ current_y' = r.y - 10
    /\ pc' = "abstract_heading"
    /\ UNCHANGED <<idx, Inputs>>

\* mutant: the heading is drawn only when there is an abstract
DrawAbstractHeading_IfAbstract ==
    /\ pc = "abstract_heading"
    /\ LET r == IF abstract = <<>> THEN [y |-> current_y, out |-> instrs]
                ELSE _draw_paragraph(instrs, AbstractHeading, margin, current_y,
                                     letter_width - 2 * margin, "Helvetica-Bold", 12, 16)
       IN  /\ instrs' = r.out
           /\ current_y' = r.y
    /\ pc' = "abstract"
    /\ UNCHANGED <<idx, Inputs>>

DrawAbstractHeading ==
    /\ pc = "abstract_heading"
    /\ LET r == _draw_paragraph(instrs, AbstractHeading, margin, current_y,
                                letter_width - 2 * margin, "Helvetica-Bold", 12, 16)
       IN  /\ instrs' = r.out
           /\ current_y' = r.y
    /\ pc' = "abstract"
    /\ UNCHANGED <<idx, Inputs>>

DrawAbstract ==
    /\ pc = "abstract"
    /\ LET r == _draw_paragraph(instrs, abstract, margin, current_y,
                                letter_width - 2 * margin, "Helvetica", 11, 15)
       IN  /\ instrs' = r.out
           /\ current_y' = r.y - 12
    /\ pc' = "body"
    /\ idx' = 1
    /\ UNCHANGED Inputs

DrawBodyParagraph ==
    /\ pc = "body"
    /\ idx <= Len(body_sections)
    /\ LET r == _draw_paragraph(instrs, body_sections[idx], margin, current_y,
                                letter_width - 2 * margin, "Helvetica", 11, 15)
       IN  /\ instrs' = r.out
           /\ current_y' = r.y - 8
    /\ idx' = idx + 1
    /\ UNCHANGED <<pc, Inputs>>

DrawFiguresHeading ==
    /\ pc = "body"
    /\ idx > Len(body_sections)
    /\ figures # <<>>
    /\ LET r == _draw_paragraph(instrs, FiguresHeading, margin, current_y,
                                letter_width - 2 * margin, "Helvetica-Bold", 12, 16)
       IN  /\ instrs' = r.out
           /\ current_y' = r.y
    /\ pc' = "figures"
    /\ idx' = 1
    /\ UNCHANGED Inputs

DrawFigure ==
    /\ pc = "figures"
    /\ idx <= Len(figures)
    /\ LET figure == figures[idx]
           brk    == FigureNeedsBreak(current_y)
           y0     == IF brk THEN letter_height - margin ELSE current_y
           out0   == IF brk THEN Append(instrs, showPageOp) ELSE instrs
           img    == ImageScale(figure.image_width, figure.image_height)
           draw_height == FToInt(img.draw_height)
           y1     == IF figure.is_image THEN y0 - (draw_height + 8) ELSE y0
           out1   == IF figure.is_image
                     THEN Append(out0, drawImageOp(margin, y0 - draw_height,
                                                   img.draw_width, img.draw_height))
                     ELSE out0
           r      == _draw_paragraph(out1, figure.caption, margin, y1,
                                     letter_width - 2 * margin, "Helvetica-Oblique", 9, 12)
       IN  /\ instrs' = r.out
           /\ current_y' = r.y - 10
    /\ idx' = idx + 1
    /\ UNCHANGED <<pc, Inputs>>

\* pdf.showPage(); pdf.save()
Save ==
    /\ \/ pc = "body" /\ idx > Len(body_sections) /\ figures = <<>>
       \/ pc = "figures" /\ idx > Len(figures)
    /\ instrs' = Append(instrs, showPageOp)
    /\ pc' = "done"
    /\ UNCHANGED <<current_y, idx, Inputs>>

Next ==
    \/ DrawTitle
    \/ DrawAbstractHeading
    \/ DrawAbstract
    \/ DrawBodyParagraph
    \/ DrawFiguresHeading
    \/ DrawFigure
    \/ Save

Spec == Init /\ [][Next]_vars

----------------------------------------------------------------------------
(* _split_text called on its own.                                          *)
MaxTextLen == 5
SplitAlphabet == {" ", TAB, "i", "W"}
SplitWidths == {5, 8, 25}
SplitFonts == {<<"Helvetica", 11>>, <<"Helvetica-Bold", 18>>}

Idle ==
    /\ title = <<>>
    /\ abstract = <<>>
    /\ body_sections = <<>>
    /\ figures = <<>>
    /\ current_y = letter_height - margin
    /\ instrs = <<>>
    /\ idx = 1

InitSplit ==
    /\ Idle
    /\ pc = "split"
    /\ \E t \in SeqsUpTo(SplitAlphabet, MaxTextLen), w \in SplitWidths, f \in SplitFonts :
           call = [fn |-> "_split_text", text |-> t, max_width |-> w,
                   font_name |-> f[1], font_size |-> f[2]]
    /\ ret = NoRet

CallSplitText ==
    /\ pc = "split"
    /\ ~ret.done
    /\ ret' = [done |-> TRUE,
               lines |-> _split_text(call.text, call.max_width,
                                     call.font_name, call.font_size)]
    /\ UNCHANGED <<title, abstract, body_sections, figures, pc, current_y,
                   instrs, idx, call>>

NextSplit == CallSplitText

SpecSplit == InitSplit /\ [][NextSplit]_vars

----------------------------------------------------------------------------
(* The image scaling of the figure loop on its own.                        *)
MaxImageDim == 8
ImageDims == (1..MaxImageDim) \cup {233, 234, 235, 286, 467, 468, 469, 557, 3000, 4000}

InitScale ==
    /\ Idle
    /\ pc = "scale"
    /\ \E w \in ImageDims, h \in ImageDims :
           call = [fn |-> "scale", image_width |-> w, image_height |-> h]
    /\ ret = NoRet

CallImageScale ==
    /\ pc = "scale"
    /\ ~ret.done
    /\ ret' = [done |-> TRUE, img |-> ImageScale(call.image_width, call.image_height)]
    /\ UNCHANGED <<title, abstract, body_sections, figures, pc, current_y,
                   instrs, idx, call>>

NextScale == CallImageScale

SpecScale == InitScale /\ [][NextScale]_vars

----------------------------------------------------------------------------
(* Reading the recorded canvas operations.  A showPage that is not the     *)
(* last operation of a finished document is a page break; the showPage     *)
(* issued by Save finalises the last page.                                 *)
N == Len(instrs)
IsBreak(i) == instrs[i].op = "showPage"
IsText(i) == instrs[i].op = "drawString"
IsImage(i) == instrs[i].op = "drawImage"
Done == pc = "done"
ShowPages == {i \in 1..N : IsBreak(i)}
PageBreaks == {i \in ShowPages : ~(Done /\ i = N)}
TopOfPage == letter_height - margin

----------------------------------------------------------------------------
(* C1 as stated: no line of text is drawn at a position y whose bottom     *)
(* edge y - leading lies below the bottom margin.                          *)
C1_LineBottomAboveMargin ==
    \A i \in 1..N : IsText(i) => instrs[i].y - instrs[i].leading >= margin

(* C1, amended: the page break is made exactly when the cursor y itself is *)
(* below the margin, so every line of text, of every block, is drawn at a  *)
(* position y with margin <= y <= page height - margin.                    *)
C1_LineBaselineAboveMargin ==
    \A i \in 1..N : IsText(i) => /\ instrs[i].y >= margin
                                 /\ instrs[i].y <= TopOfPage

\* a paragraph was broken across two pages, and a later block was drawn too
C1_Witness ==
    /\ Done
    /\ \E i \in 2..(N - 1) : /\ IsBreak(i) /\ IsText(i - 1) /\ IsText(i + 1)
                             /\ instrs[i + 1].line_no = instrs[i - 1].line_no + 1
                             /\ instrs[i + 1].y = TopOfPage
    /\ \E i \in 1..N : IsImage(i)

(* C2: there is no blank page: the first operation is never a showPage and *)
(* no two showPage operations are adjacent, the final showPage of Save     *)
(* included (so the last page holds a text or an image too).               *)
C2_NoBlankPage ==
    /\ N >= 1 => ~IsBreak(1)
    /\ \A i \in 1..(N - 1) : ~(IsBreak(i) /\ IsBreak(i + 1))

\* a finished document with a break inside a paragraph and a forced break
\* before an image
C2_Witness ==
    /\ Done
    /\ \E i \in 2..(N - 1) : /\ IsBreak(i) /\ IsText(i - 1) /\ IsText(i + 1)
                             /\ instrs[i + 1].line_no > 1
    /\ \E i \in 1..(N - 1) : IsBreak(i) /\ IsImage(i + 1)

(* C3 as stated: every image is drawn with its bottom edge (the y given to *)
(* drawImage) at or above the bottom margin.                               *)
C3_ImageBottomAboveMargin ==
    \A i \in 1..N : IsImage(i) => instrs[i].y >= margin

(* C9 as stated: no page break lies between an image and the first line of *)
(* its caption.                                                            *)
C9_CaptionOnImagePage ==
    \A i \in 1..(N - 1) : IsImage(i) => ~IsBreak(i + 1)

----------------------------------------------------------------------------
EmptyDocument ==
    title = <<>> /\ abstract = <<>> /\ body_sections = <<>> /\ figures = <<>>

TextsDrawn == SelectSeq(instrs, LAMBDA o : o.op = "drawString")

(* C4 as stated: the all-empty document yields one page holding the        *)
(* default title "Untitled Manuscript" and no other text or image.         *)
C4_OnlyDefaultTitle ==
    (EmptyDocument /\ Done) =>
        /\ PageBreaks = {}
        /\ Len(TextsDrawn) = 1
        /\ TextsDrawn[1].text = UntitledManuscript
        /\ \A i \in 1..N : ~IsImage(i)

(* C4, amended: the all-empty document yields one page (no page break, no  *)
(* image) holding exactly three texts: the default title "Untitled         *)
(* Manuscript", the heading "Abstract" and one blank line for the empty    *)
(* abstract.                                                               *)
C4_DefaultTitleAbstractBlank ==
    (EmptyDocument /\ Done) =>
        /\ PageBreaks = {}
        /\ N = 4
        /\ [i \in 1..3 |-> instrs[i].op] = <<"drawString", "drawString", "drawString">>
        /\ [i \in 1..3 |-> instrs[i].text] = <<UntitledManuscript, AbstractHeading, <<>>>>
        /\ [i \in 1..3 |-> instrs[i].y] = <<TopOfPage, TopOfPage - 32, TopOfPage - 48>>
        /\ IsBreak(4)

C4_Witness == EmptyDocument /\ Done

----------------------------------------------------------------------------
\* what an operation shows: a text with its font, or an image with its drawn size
Shown(o) ==
    IF o.op = "drawString" THEN <<"text", o.text, o.font, o.size>>
    ELSE <<"image", o.width, o.height>>

TextBlock(text, font_name, font_size) ==
    LET lines == _split_text(text, max_content_width, font_name, font_size)
    IN  [k \in 1..Len(lines) |-> <<"text", lines[k], font_name, font_size>>]

FigureBlock(f) ==
    LET img == ImageScale(f.image_width, f.image_height)
    IN  (IF f.is_image THEN << <<"image", img.draw_width, img.draw_height>> >> ELSE <<>>)
            \o TextBlock(f.caption, "Helvetica-Oblique", 9)

RECURSIVE Flatten(_)
Flatten(blocks) ==
    IF blocks = <<>> THEN <<>> ELSE Head(blocks) \o Flatten(Tail(blocks))

ExpectedOrder ==
    TextBlock(TitleText(title), "Helvetica-Bold", 18)
        \o TextBlock(AbstractHeading, "Helvetica-Bold", 12)
        \o TextBlock(abstract, "Helvetica", 11)
        \o Flatten([k \in 1..Len(body_sections) |->
                       TextBlock(body_sections[k], "Helvetica", 11)])
        \o (IF figures = <<>> THEN <<>>
            ELSE TextBlock(FiguresHeading, "Helvetica-Bold", 12))
        \o Flatten([k \in 1..Len(figures) |-> FigureBlock(figures[k])])

DrawnOrder ==
    LET content == SelectSeq(instrs, LAMBDA o : o.op # "showPage")
    IN  [k \in 1..Len(content) |-> Shown(content[k])]

(* C7: the texts and images of a finished document are, in order: the      *)
(* title lines, the heading "Abstract" (also when the abstract is empty),  *)
(* the abstract lines, the lines of each body paragraph in document order, *)
(* the heading "Figures" if and only if there are figures, and for each    *)
(* figure in order its image (when its data URI is an image) followed by   *)
(* its caption lines.                                                      *)
C7_FixedOrder == Done => DrawnOrder = ExpectedOrder

\* two body paragraphs, two figures, an empty abstract
C7_Witness ==
    /\ Done
    /\ abstract = <<>>
    /\ Len(body_sections) = 2 /\ body_sections[1] # body_sections[2]
    /\ Len(figures) = 2 /\ figures[1] # figures[2]

----------------------------------------------------------------------------
ScenarioB ==
    /\ title = <<"T">>
    /\ abstract = <<>>
    /\ body_sections = <<Para(60)>>
    /\ figures = <<>>

\* consecutive lines of one paragraph: a break lies between them exactly when the
\* cursor after the first (its y minus the leading) is below the margin, and the
\* line after a break is drawn at the top of the page
BreakExactlyWhenBelowMargin ==
    \A i \in 1..(N - 1) :
        IsText(i) =>
            LET next_y == instrs[i].y - instrs[i].leading IN
            /\ (IsText(i + 1) /\ instrs[i + 1].line_no = instrs[i].line_no + 1)
                   => (next_y >= margin /\ instrs[i + 1].y = next_y)
            /\ (IsBreak(i + 1) /\ i + 2 <= N /\ IsText(i + 2)
                    /\ instrs[i + 2].line_no = instrs[i].line_no + 1)
                   => (next_y < margin /\ instrs[i + 2].y = TopOfPage)

(* C8: a single-line title, an empty abstract and one body paragraph of 60 *)
(* lines give exactly 2 pages with exactly one page break, made before the *)
(* first line for which the cursor is below 72 (the 40th line of the       *)
(* paragraph, drawn at the top of page 2); and in every document a break   *)
(* lies between two consecutive lines of a paragraph exactly when the      *)
(* cursor is below the margin for the second, which is then drawn at       *)
(* page height - margin.                                                   *)
C8_SixtyLinesTwoPages ==
    /\ BreakExactlyWhenBelowMargin
    /\ (ScenarioB /\ Done) =>
           /\ Cardinality(ShowPages) = 2
           /\ Cardinality(PageBreaks) = 1
           /\ \A p \in PageBreaks :
                  /\ IsText(p - 1) /\ IsText(p + 1)
                  /\ instrs[p - 1].line_no = 39 /\ instrs[p + 1].line_no = 40
                  /\ instrs[p - 1].y - 15 < 72
                  /\ instrs[p + 1].y = 720
                  /\ \A i \in 1..(p - 2) : instrs[i].y - instrs[i].leading >= 72
           \* the title, the heading and the blank abstract line, then the 60 lines
           /\ Cardinality({i \in 1..N : IsText(i)}) = 3 + 60

C8_Witness == ScenarioB /\ Done

----------------------------------------------------------------------------
(* _split_text on its own.                                                 *)
SplitReturned == pc = "split" /\ ret.done

HasSpace(line) == \E j \in 1..Len(line) : line[j] = " "

Fits(line) == stringWidth(line, call.font_name, call.font_size) <= 1000 * call.max_width

(* C5: every returned line of two or more words (a line holding a space)   *)
(* measures at most max_width in the font and size of the call; only a     *)
(* line that is one single word may be wider.                              *)
C5_WidthInvariant ==
    SplitReturned =>
        \A k \in 1..Len(ret.lines) : HasSpace(ret.lines[k]) => Fits(ret.lines[k])

\* the text wrapped: a line of several words, and a single word too wide alone
C5_Witness ==
    /\ SplitReturned
    /\ Len(ret.lines) >= 2
    /\ \E k \in 1..Len(ret.lines) : HasSpace(ret.lines[k])
    /\ \E k \in 1..Len(ret.lines) : ~Fits(ret.lines[k])

\* line.split(" "): the pieces between the single spaces of a line
SplitOnSpace(line) ==
    LET n    == Len(line)
        seps == SelectSeq([i \in 1..n |-> i], LAMBDA i : line[i] = " ")
        cut  == <<0>> \o seps \o <<n + 1>>
    IN  [k \in 1..(Len(seps) + 1) |-> SubSeq(line, cut[k] + 1, cut[k + 1] - 1)]

\* the words of a text, read off from the left one at a time
RECURSIVE WordsFromLeft(_)
WordsFromLeft(text) ==
    IF text = <<>> THEN <<>>
    ELSE IF IsSpace(Head(text)) THEN WordsFromLeft(Tail(text))
    ELSE LET n == CHOOSE j \in 1..Len(text) :
                      /\ \A k \in 1..j : ~IsSpace(text[k])
                      /\ (j = Len(text) \/ IsSpace(text[j + 1]))
         IN  <<SubSeq(text, 1, n)>> \o WordsFromLeft(SubSeq(text, n + 1, Len(text)))

(* C10: no word is lost or altered: the pieces of the returned lines, in   *)
(* line order, are exactly the words of the input in their order; a word   *)
(* wider than max_width is alone on its line; the result is the single     *)
(* empty line exactly when the input has no word, and otherwise no line    *)
(* is empty.                                                               *)
C10_NoWordLost ==
    SplitReturned =>
        LET words  == WordsFromLeft(call.text)
            pieces == [k \in 1..Len(ret.lines) |-> SplitOnSpace(ret.lines[k])]
        IN  /\ (ret.lines = << <<>> >>) <=> (words = <<>>)
            /\ words # <<>> =>
                   /\ Flatten(pieces) = words
                   /\ \A k \in 1..Len(ret.lines) : ret.lines[k] # <<>>
            /\ \A k \in 1..Len(pieces) :
                   (\E j \in 1..Len(pieces[k]) : ~Fits(pieces[k][j]))
                       => Len(pieces[k]) = 1

\* three words between runs of whitespace, wrapped onto more than one line
C10_Witness ==
    /\ SplitReturned
    /\ Len(WordsFromLeft(call.text)) = 3
    /\ Len(ret.lines) = 2
    /\ \E j \in 1..Len(call.text) : call.text[j] = TAB
    /\ \E k \in 1..Len(ret.lines) : ~Fits(ret.lines[k])

----------------------------------------------------------------------------
(* The image scaling on its own.                                           *)
ScaleReturned == pc = "scale" /\ ret.done

(* C6 as stated: the drawn width is at most max_content_width and the      *)
(* drawn height at most max_image_height; an image within both limits is   *)
(* drawn at its native size; a 4000 x 3000 image is drawn 312 x 234.       *)
C6_ScaleBounded ==
    ScaleReturned =>
        /\ FLeq(ret.img.draw_width, FromInt(max_content_width))
        /\ FLeq(ret.img.draw_height, FromInt(max_image_height))
        /\ (call.image_width <= max_content_width
                /\ call.image_height <= max_image_height)
               => /\ ret.img.draw_width = FromInt(call.image_width)
                  /\ ret.img.draw_height = FromInt(call.image_height)
        /\ (call.image_width = 4000 /\ call.image_height = 3000)
               => /\ ret.img.draw_width = FromInt(312)
                  /\ ret.img.draw_height = FromInt(234)

====
